---- MODULE Spec2Model ----
(***************************************************************************)
(* Model of the two utilities of the API test harness:                     *)
(*   - withRateLimit (playwright.config.ts, module utils/rateLimiter):     *)
(*     the retry loop around an asynchronous request, with backoff;        *)
(*   - SchemaValidator / validateJson (module utils/schemaValidator):      *)
(*     the process-wide singleton with its cache of compiled validators.   *)
(* JavaScript numbers are modelled as records so that NaN is a value:      *)
(* Num(v) is the number v, NaN is the not-a-number value.                  *)
(***************************************************************************)
EXTENDS Integers, Sequences, FiniteSets, TLC

VARIABLES
    \* ---- withRateLimit, one record of locals per invocation ----
    pc,          \* position of the invocation: idle, attempting, waiting, returned, threw
    config,      \* the config argument as passed (fields may be undefined)
    attempt,     \* loop variable `attempt`
    lastError,   \* local `lastError` ({} is null)
    calls,       \* number of executions of request() so far
    execs,       \* how each execution of request() settled, in order
    waits,       \* the setTimeout calls made so far: attempt index, delay, error
    elapsed,     \* sum of the delays of the timers that have fired
    outcome,     \* how the invocation settled
    trace,       \* the states of the retry state machine visited so far
    \* ---- SchemaValidator ----
    instance,    \* SchemaValidator.instance ({} before the first getInstance)
    validators,  \* the Map schemaKey -> compiled validate function
    compileLog,  \* the ajv.compile calls made so far, in order
    results,     \* the (schema, payload, result) of the validate calls so far
    nextFn,      \* identity given to the next compiled validate function
    constructed, \* number of SchemaValidator objects constructed so far
    firstOptions,\* the options of the first getInstance call ({} before it)
    lastOptions  \* the options of the latest getInstance call ({} before it)

rvars == <<pc, config, attempt, lastError, calls, execs, waits, elapsed, outcome, trace>>
vvars == <<instance, validators, compileLog, results, nextFn, constructed, firstOptions,
          lastOptions>>
vars == <<pc, config, attempt, lastError, calls, execs, waits, elapsed, outcome, trace,
          instance, validators, compileLog, results, nextFn, constructed,
          firstOptions, lastOptions>>

----------------------------------------------------------------------------
(* JavaScript numbers with NaN *)

Num(v) == [nan |-> FALSE, v |-> v]
NaN == [nan |-> TRUE, v |-> 0]

NumMul(a, b) == IF a.nan \/ b.nan THEN NaN ELSE Num(a.v * b.v)
NumAdd(a, b) == IF a.nan \/ b.nan THEN NaN ELSE Num(a.v + b.v)

\* Math.min(a, b): NaN as soon as one argument is NaN
MathMin(a, b) ==
    IF a.nan \/ b.nan THEN NaN
    ELSE IF a.v <= b.v THEN a ELSE b

\* Math.pow(2, n) for the loop index n >= 0
RECURSIVE Pow2(_)
Pow2(n) == IF n <= 0 THEN 1 ELSE 2 * Pow2(n - 1)

----------------------------------------------------------------------------
(* parseInt(s, 10) on a string given as its sequence of characters *)

Digits == <<"0", "1", "2", "3", "4", "5", "6", "7", "8", "9">>
IsDigit(c) == \E d \in 1..10 : Digits[d] = c
DigitVal(c) == (CHOOSE d \in 1..10 : Digits[d] = c) - 1
IsSpace(c) == c = " "

RECURSIVE SkipSpaces(_)
SkipSpaces(s) ==
    IF s # <<>> /\ IsSpace(Head(s)) THEN SkipSpaces(Tail(s)) ELSE s

\* the value of the longest prefix of digits of s, continuing from acc
RECURSIVE ReadDigits(_, _)
ReadDigits(s, acc) ==
    IF s # <<>> /\ IsDigit(Head(s))
    THEN ReadDigits(Tail(s), 10 * acc + DigitVal(Head(s)))
    ELSE acc

ParseInt(str) ==
    LET s == SkipSpaces(str)
        neg == s # <<>> /\ Head(s) = "-"
        body == IF s # <<>> /\ Head(s) \in {"-", "+"} THEN Tail(s) ELSE s
    IN  IF body = <<>> \/ ~IsDigit(Head(body)) THEN NaN
        ELSE IF neg THEN Num(0 - ReadDigits(body, 0))
        ELSE Num(ReadDigits(body, 0))

----------------------------------------------------------------------------
(* withRateLimit: inputs *)

Invocations == {"a", "b"}

MaxRetriesBound == 3

DefaultMaxRetries == 3
DefaultBaseDelay == 1000
DefaultMaxDelay == 10000

\* A field of the config object is {} when undefined and {v} when set to v.
Configs ==
    [maxRetries : {{}} \cup {{n} : n \in (0 - 1)..MaxRetriesBound},
     baseDelay  : {{}, {1000}, {3000}},
     maxDelay   : {{}, {1500}, {10000}}]

NoConfig == [maxRetries |-> {}, baseDelay |-> {}, maxDelay |-> {}]

\* destructuring with defaults: `const { x = d } = config`
OrDefault(field, d) == IF field = {} THEN d ELSE CHOOSE v \in field : TRUE

MaxRetriesOf(cfg) == OrDefault(cfg.maxRetries, DefaultMaxRetries)
BaseDelayOf(cfg) == OrDefault(cfg.baseDelay, DefaultBaseDelay)
MaxDelayOf(cfg) == OrDefault(cfg.maxDelay, DefaultMaxDelay)

\* Values of the retry-after header, as sequences of characters.
RetryAfterValues ==
    { <<"1">>, <<"2">>, <<"0">>, <<"1", "2">>, <<"-", "1">>,
      <<"W", "e", "d", ",", " ", "2", "1">>, <<>> }

\* What request() can reject with.  isError: the value is an instance of
\* Error; hasResponse: it has a property `response`; respDefined: that
\* property holds a response object (with status and headers).
Shape(isErr, hasResp, respDef, st, hasRA, ra) ==
    [isError |-> isErr, hasResponse |-> hasResp, respDefined |-> respDef,
     status |-> st, hasRetryAfter |-> hasRA, retryAfter |-> ra, msg |-> ""]

RateLimitShapes ==
    {Shape(TRUE, TRUE, TRUE, 429, TRUE, h) : h \in RetryAfterValues}
    \cup {Shape(TRUE, TRUE, TRUE, 429, FALSE, <<>>)}

OtherShapes ==
    { Shape(TRUE, TRUE, TRUE, 500, FALSE, <<>>),    \* server error
      Shape(TRUE, TRUE, TRUE, 503, TRUE, <<"1">>),  \* unavailable, with a hint
      Shape(TRUE, FALSE, FALSE, 0, FALSE, <<>>),    \* network error, no response
      Shape(TRUE, TRUE, FALSE, 0, FALSE, <<>>),     \* response: undefined
      Shape(FALSE, TRUE, TRUE, 429, TRUE, <<"1">>)  \* a thrown non-Error object
    }

ErrorShapes == RateLimitShapes \cup OtherShapes

\* What request() can resolve with: a 200 response or a 429 response (the
\* request context resolves with the response whatever its status).
ResolvedValues == {"response200", "response429"}

\* The error thrown by execution number seq of invocation p.
MkError(p, seq, shape) ==
    [inv |-> p, seq |-> seq, isError |-> shape.isError,
     hasResponse |-> shape.hasResponse, respDefined |-> shape.respDefined,
     status |-> shape.status, hasRetryAfter |-> shape.hasRetryAfter,
     retryAfter |-> shape.retryAfter, msg |-> shape.msg]

\* new Error('Max retries exceeded')
MaxRetriesExceededError(p) ==
    [inv |-> p, seq |-> 0, isError |-> TRUE, hasResponse |-> FALSE,
     respDefined |-> FALSE, status |-> 0, hasRetryAfter |-> FALSE,
     retryAfter |-> <<>>, msg |-> "Max retries exceeded"]

----------------------------------------------------------------------------
(* withRateLimit: the catch block *)

\* const resp = error instanceof Error && 'response' in error ? error.response : null
\* ({} stands for null and for undefined)
RespOf(e) ==
    IF e.isError /\ e.hasResponse
    THEN IF e.respDefined
         THEN {[status |-> e.status, hasRetryAfter |-> e.hasRetryAfter,
                retryAfter |-> e.retryAfter]}
         ELSE {}
    ELSE {}

\* resp?.status() === 429
IsRateLimitedAnyResponse(e) == RespOf(e) # {}
IsRateLimitedOnlyWithHint(e) ==
    \E r \in RespOf(e) : r.status = 429 /\ r.hasRetryAfter
IsRateLimited(e) == \E r \in RespOf(e) : r.status = 429

\* a string is truthy unless it is undefined or empty
Truthy(hasIt, str) == hasIt /\ str # <<>>

\* Math.min(retryAfter ? parseInt(retryAfter, 10) * 1000
\*                     : baseDelay * Math.pow(2, attempt), maxDelay)
ComputeDelayCombined(e, att, cfg) ==
    IF Truthy(e.hasRetryAfter, e.retryAfter)
    THEN MathMin(NumAdd(NumMul(ParseInt(e.retryAfter), Num(1000)),
                        NumMul(Num(BaseDelayOf(cfg)), Num(Pow2(att)))),
                 Num(MaxDelayOf(cfg)))
    ELSE MathMin(NumMul(Num(BaseDelayOf(cfg)), Num(Pow2(att + 1))),
                 Num(MaxDelayOf(cfg)))
ComputeDelay(e, att, cfg) ==
    MathMin(IF Truthy(e.hasRetryAfter, e.retryAfter)
            THEN NumMul(ParseInt(e.retryAfter), Num(1000))
            ELSE NumMul(Num(BaseDelayOf(cfg)), Num(Pow2(att))),
            Num(MaxDelayOf(cfg)))

----------------------------------------------------------------------------
(* withRateLimit: the loop *)

Resolved(v) == [kind |-> "resolved", value |-> v, error |-> {}]
Rejected(e) == [kind |-> "rejected", value |-> "", error |-> {e}]

NoOutcome == [kind |-> "pending", value |-> "", error |-> {}]
Returned(v) == [kind |-> "returned", value |-> v, error |-> {}]
Threw(e) == [kind |-> "threw", value |-> "", error |-> {e}]

\* throw lastError || new Error('Max retries exceeded')
FinalError(p, le) == IF le # {} THEN CHOOSE e \in le : TRUE ELSE MaxRetriesExceededError(p)

\* `attempt < maxRetries`
LoopConditionOffByOne(att, cfg) == att <= MaxRetriesOf(cfg)
LoopCondition(att, cfg) == att < MaxRetriesOf(cfg)

\* The loop test with `attempt` = att and `lastError` = le: either the body
\* is entered and request() is called, or the loop is left and the
\* function throws.
LoopTestSharedCounter(p, att, le, cfg) ==
    /\ attempt' = [q \in Invocations |-> att]
    /\ IF LoopCondition(att, cfg)
       THEN /\ pc' = [pc EXCEPT ![p] = "attempting"]
            /\ calls' = [calls EXCEPT ![p] = @ + 1]
            /\ trace' = [trace EXCEPT ![p] = Append(@, "Attempting")]
            /\ outcome' = outcome
       ELSE /\ pc' = [pc EXCEPT ![p] = "threw"]
            /\ calls' = calls
            /\ trace' = [trace EXCEPT ![p] = Append(@, "ExhaustedRetries")]
            /\ outcome' = [outcome EXCEPT ![p] = Threw(FinalError(p, le))]
LoopTest(p, att, le, cfg) ==
    /\ attempt' = [attempt EXCEPT ![p] = att]
    /\ IF LoopCondition(att, cfg)
       THEN /\ pc' = [pc EXCEPT ![p] = "attempting"]
            /\ calls' = [calls EXCEPT ![p] = @ + 1]
            /\ trace' = [trace EXCEPT ![p] = Append(@, "Attempting")]
            /\ outcome' = outcome
       ELSE /\ pc' = [pc EXCEPT ![p] = "threw"]
            /\ calls' = calls
            /\ trace' = [trace EXCEPT ![p] = Append(@, "ExhaustedRetries")]
            /\ outcome' = [outcome EXCEPT ![p] = Threw(FinalError(p, le))]

\* withRateLimit(request, cfg) is called: runs up to the first await.
Invoke(p, cfg) ==
    /\ pc[p] = "idle"
    /\ config' = [config EXCEPT ![p] = cfg]
    /\ lastError' = [lastError EXCEPT ![p] = {}]
    /\ LoopTest(p, 0, {}, cfg)
    /\ UNCHANGED <<execs, waits, elapsed>>
    /\ UNCHANGED vvars

\* `return await request()`: the request resolves with v.
RequestResolves(p, v) ==
    /\ pc[p] = "attempting"
    /\ pc' = [pc EXCEPT ![p] = "returned"]
    /\ outcome' = [outcome EXCEPT ![p] = Returned(v)]
    /\ trace' = [trace EXCEPT ![p] = Append(@, "Success")]
    /\ execs' = [execs EXCEPT ![p] = Append(@, Resolved(v))]
    /\ UNCHANGED <<config, attempt, lastError, calls, waits, elapsed>>
    /\ UNCHANGED vvars

\* The request rejects: the catch block.  A 429 starts the timer of the
\* backoff wait; anything else is thrown again.
RequestRejects(p, shape) ==
    /\ pc[p] = "attempting"
    /\ LET e == MkError(p, calls[p], shape)
       IN  /\ lastError' = [lastError EXCEPT ![p] = {e}]
           /\ execs' = [execs EXCEPT ![p] = Append(@, Rejected(e))]
           /\ IF IsRateLimited(e)
              THEN /\ waits' = [waits EXCEPT ![p] =
                          Append(@, [attempt |-> attempt[p],
                                     delay |-> ComputeDelay(e, attempt[p], config[p]),
                                     error |-> e])]
                   /\ pc' = [pc EXCEPT ![p] = "waiting"]
                   /\ trace' = [trace EXCEPT ![p] = @ \o <<"RateLimited", "Waiting">>]
                   /\ outcome' = outcome
              ELSE /\ waits' = waits
                   /\ pc' = [pc EXCEPT ![p] = "threw"]
                   /\ trace' = [trace EXCEPT ![p] = Append(@, "OtherFailure")]
                   /\ outcome' = [outcome EXCEPT ![p] = Threw(e)]
    /\ UNCHANGED <<config, attempt, calls, elapsed>>
    /\ UNCHANGED vvars

\* `await new Promise(resolve => setTimeout(resolve, delay))`: the function
\* resumes when the timer has run for `delay`
AfterWaitNotAwaited(total, delay) == total
AfterWait(total, delay) == NumAdd(total, delay)

\* The timer of the backoff wait fires: `continue`, attempt++, loop test.
TimerFiresWithoutIncrement(p) ==
    /\ pc[p] = "waiting"
    /\ elapsed' = [elapsed EXCEPT ![p] = AfterWait(@, waits[p][Len(waits[p])].delay)]
    /\ LoopTest(p, attempt[p], lastError[p], config[p])
    /\ UNCHANGED <<config, lastError, execs, waits>>
    /\ UNCHANGED vvars
TimerFires(p) ==
    /\ pc[p] = "waiting"
    /\ elapsed' = [elapsed EXCEPT ![p] = AfterWait(@, waits[p][Len(waits[p])].delay)]
    /\ LoopTest(p, attempt[p] + 1, lastError[p], config[p])
    /\ UNCHANGED <<config, lastError, execs, waits>>
    /\ UNCHANGED vvars

RetryInit ==
    /\ pc = [p \in Invocations |-> "idle"]
    /\ config = [p \in Invocations |-> NoConfig]
    /\ attempt = [p \in Invocations |-> 0]
    /\ lastError = [p \in Invocations |-> {}]
    /\ calls = [p \in Invocations |-> 0]
    /\ execs = [p \in Invocations |-> <<>>]
    /\ waits = [p \in Invocations |-> <<>>]
    /\ elapsed = [p \in Invocations |-> Num(0)]
    /\ outcome = [p \in Invocations |-> NoOutcome]
    /\ trace = [p \in Invocations |-> <<>>]

----------------------------------------------------------------------------
(* SchemaValidator: schemas, payloads and JSON.stringify *)

\* An object is the sequence of its properties in insertion order.  A
\* schema keyword holds a string, an array of strings, an object of
\* property schemas, or undefined.
KwStr(k, v) == [key |-> k, kind |-> "str", s |-> v, items |-> <<>>, props |-> <<>>]
KwArr(k, a) == [key |-> k, kind |-> "arr", s |-> "", items |-> a, props |-> <<>>]
KwObj(k, ps) == [key |-> k, kind |-> "obj", s |-> "", items |-> <<>>, props |-> ps]
KwUndef(k) == [key |-> k, kind |-> "undef", s |-> "", items |-> <<>>, props |-> <<>>]

Prop(n, kws) == [name |-> n, kws |-> kws]
Kw(k, v) == [key |-> k, s |-> v]

UserProps ==
    <<Prop("id", <<Kw("type", "integer")>>),
      Prop("email", <<Kw("type", "string"), Kw("format", "email")>>)>>

SchemaNames ==
    {"user", "userReordered", "userUndef", "idOnly", "badType", "unknownKeyword"}

SchemaDef(name) ==
    CASE name = "user" ->
            <<KwStr("type", "object"), KwArr("required", <<"id", "email">>),
              KwObj("properties", UserProps)>>
      [] name = "userReordered" ->
            <<KwStr("type", "object"), KwObj("properties", UserProps),
              KwArr("required", <<"id", "email">>)>>
      [] name = "userUndef" ->
            <<KwStr("type", "object"), KwArr("required", <<"id", "email">>),
              KwObj("properties", UserProps), KwUndef("additionalProperties")>>
      [] name = "idOnly" ->
            <<KwStr("type", "object"),
              KwObj("properties", <<Prop("id", <<Kw("type", "integer")>>)>>)>>
      [] name = "badType" ->
            <<KwStr("type", "objekt")>>
      [] OTHER ->
            <<KwStr("type", "object"), KwStr("x-note", "draft")>>

\* JSON values of the payload properties: a number or a string, both
\* written by their text.
JNumber(t) == [t |-> "number", s |-> t]
JString(t) == [t |-> "string", s |-> t]

\* A payload is an object with the optional properties id and email
\* ({} when the property is absent).
Payloads ==
    { [id |-> {JString("2")}, email |-> {JString("x@y.com")}],
      [id |-> {}, email |-> {JString("bad")}] }

PayloadProps == <<"id", "email">>

Quote(str) == "\"" \o str \o "\""

RECURSIVE JoinComma(_)
JoinComma(strs) ==
    IF strs = <<>> THEN ""
    ELSE IF Len(strs) = 1 THEN strs[1]
    ELSE strs[1] \o "," \o JoinComma(Tail(strs))

PropSchemaJson(kws) ==
    "{" \o JoinComma([i \in 1..Len(kws) |-> Quote(kws[i].key) \o ":" \o Quote(kws[i].s)])
        \o "}"

KeywordValueJson(e) ==
    CASE e.kind = "str" -> Quote(e.s)
      [] e.kind = "arr" ->
            "[" \o JoinComma([i \in 1..Len(e.items) |-> Quote(e.items[i])]) \o "]"
      [] OTHER ->
            "{" \o JoinComma([i \in 1..Len(e.props) |->
                     Quote(e.props[i].name) \o ":" \o PropSchemaJson(e.props[i].kws)])
                \o "}"

IsDefined(e) == e.kind # "undef"

\* JSON.stringify(schema): properties in insertion order, those whose
\* value is undefined left out.
StringifyAsObjectTag(schema) == "[object Object]"
Stringify(schema) ==
    LET kept == SelectSeq(schema, IsDefined)
    IN  "{" \o JoinComma([i \in 1..Len(kept) |->
                 Quote(kept[i].key) \o ":" \o KeywordValueJson(kept[i])])
            \o "}"

SchemaKey(name) == Stringify(SchemaDef(name))

----------------------------------------------------------------------------
(* SchemaValidator: options, constructor and the Ajv instance *)

MaxCalls == 3

\* The options argument: given is FALSE when no options object is passed;
\* a field is {} when undefined.  removeAdditional is false, true, "all"
\* or "failing", written as text.
Opts(str, coerce, remove) ==
    [given |-> TRUE, strict |-> str, coerceTypes |-> coerce, removeAdditional |-> remove]
NoOptions ==
    [given |-> FALSE, strict |-> {}, coerceTypes |-> {}, removeAdditional |-> {}]

OptionChoices ==
    { NoOptions,
      Opts({TRUE}, {FALSE}, {"all"}) }

\* `options?.x ?? d`
OrElse(field, d) == IF field = {} THEN d ELSE CHOOSE v \in field : TRUE

\* new Ajv({allErrors: true, strict: ..., coerceTypes: ..., removeAdditional: ...})
AjvOptionsFailFast(options) ==
    [allErrors |-> FALSE,
     strict |-> OrElse(options.strict, FALSE),
     coerceTypes |-> OrElse(options.coerceTypes, TRUE),
     removeAdditional |-> OrElse(options.removeAdditional, "false")]
AjvOptions(options) ==
    [allErrors |-> TRUE,
     strict |-> OrElse(options.strict, FALSE),
     coerceTypes |-> OrElse(options.coerceTypes, TRUE),
     removeAdditional |-> OrElse(options.removeAdditional, "false")]

\* `if (!SchemaValidator.instance)`
NeedsConstructionWhenOptionsGiven(inst, options) == inst = {} \/ options.given
NeedsConstructionUnlessSameOptions(inst, options) ==
    inst = {} \/ \E i \in inst : i.cfg # AjvOptions(options)
NeedsConstruction(inst, options) == inst = {}

----------------------------------------------------------------------------
(* Ajv: compile and the compiled validate function *)

JSONTypes == {"object", "integer", "string", "number", "boolean", "array", "null"}
KnownKeywords == {"type", "required", "properties", "additionalProperties", "format"}

\* ajv.compile(schema) throws: a type that is no JSON type, or, in strict
\* mode, a keyword Ajv does not know.
CompileThrows(schema, cfg) ==
    \/ \E i \in 1..Len(schema) :
          schema[i].key = "type" /\ schema[i].kind = "str" /\ schema[i].s \notin JSONTypes
    \/ cfg.strict /\ \E i \in 1..Len(schema) : schema[i].key \notin KnownKeywords

\* `validate = this.ajv.compile(schema)`: the error of compile is not
\* caught, it leaves validate
CompileOutcomeSwallowed(schema, cfg) == "compiled"
CompileOutcome(schema, cfg) == IF CompileThrows(schema, cfg) THEN "throws" ELSE "compiled"

Keyword(schema, k) == {schema[i] : i \in {j \in 1..Len(schema) : schema[j].key = k}}
PropKeyword(kws, k) == {kws[i].s : i \in {j \in 1..Len(kws) : kws[j].key = k}}

NumericTexts == {"2"}
EmailTexts == {"x@y.com"}

Violation(path, msg) == [instancePath |-> path, message |-> msg]

\* type of one property value, with coercion: the value after the
\* keyword and the violations it reports
CheckType(kws, cfg, path, val) ==
    LET typ == PropKeyword(kws, "type")
    IN  IF "integer" \in typ /\ val.t # "number"
        THEN IF cfg.coerceTypes /\ val.s \in NumericTexts
             THEN [val |-> JNumber(val.s), errs |-> <<>>]
             ELSE [val |-> val, errs |-> <<Violation(path, "must be integer")>>]
        ELSE IF "string" \in typ /\ val.t # "string"
        THEN IF cfg.coerceTypes
             THEN [val |-> JString(val.s), errs |-> <<>>]
             ELSE [val |-> val, errs |-> <<Violation(path, "must be string")>>]
        ELSE [val |-> val, errs |-> <<>>]

\* format applies to strings only
CheckFormat(kws, path, val) ==
    IF "email" \in PropKeyword(kws, "format") /\ val.t = "string" /\ val.s \notin EmailTexts
    THEN <<Violation(path, "must match format \"email\"")>>
    ELSE <<>>

CheckProp(kws, cfg, path, val) ==
    LET typed == CheckType(kws, cfg, path, val)
    IN  [val |-> typed.val, errs |-> typed.errs \o CheckFormat(kws, path, typed.val)]

\* keyword required: one violation per missing property, at the root
RECURSIVE RequiredErrors(_, _)
RequiredErrors(names, payload) ==
    IF names = <<>> THEN <<>>
    ELSE (IF payload[Head(names)] = {}
          THEN <<Violation("", "must have required property '" \o Head(names) \o "'")>>
          ELSE <<>>)
         \o RequiredErrors(Tail(names), payload)

\* keyword properties: each present property against its schema, in the
\* order of the schema; coerced values are written back into the payload
RECURSIVE PropertiesStep(_, _, _, _)
PropertiesStep(props, cfg, payload, errs) ==
    IF props = <<>> THEN [data |-> payload, errs |-> errs]
    ELSE LET p == Head(props)
         IN  IF payload[p.name] = {}
             THEN PropertiesStep(Tail(props), cfg, payload, errs)
             ELSE LET r == CheckProp(p.kws, cfg, "/" \o p.name,
                                     CHOOSE v \in payload[p.name] : TRUE)
                  IN  PropertiesStep(Tail(props), cfg,
                                     [payload EXCEPT ![p.name] = {r.val}],
                                     errs \o r.errs)

\* removeAdditional "all": properties the schema does not name are
\* removed when the schema has properties and no additionalProperties
NamedProps(schema) ==
    UNION {{e.props[i].name : i \in 1..Len(e.props)} : e \in Keyword(schema, "properties")}

RemoveAdditional(schema, cfg, payload) ==
    IF /\ cfg.removeAdditional = "all"
       /\ Keyword(schema, "properties") # {}
       /\ \A e \in Keyword(schema, "additionalProperties") : e.kind = "undef"
    THEN [id |-> IF "id" \in NamedProps(schema) THEN payload.id ELSE {},
          email |-> IF "email" \in NamedProps(schema) THEN payload.email ELSE {}]
    ELSE payload

\* The validate function compiled from `schema` under the Ajv options cfg,
\* applied to a payload object: the violations in Ajv's order (type,
\* required, properties) and the payload as the call leaves it.
RunValidator(schema, cfg, payload) ==
    LET typeErrs ==
            IF \E e \in Keyword(schema, "type") : e.s # "object"
            THEN <<Violation("", "must be " \o (CHOOSE e \in Keyword(schema, "type") : TRUE).s)>>
            ELSE <<>>
        reqErrs ==
            IF Keyword(schema, "required") = {} THEN <<>>
            ELSE RequiredErrors((CHOOSE e \in Keyword(schema, "required") : TRUE).items,
                                payload)
        cleaned == RemoveAdditional(schema, cfg, payload)
        propsR ==
            IF Keyword(schema, "properties") = {}
            THEN [data |-> cleaned, errs |-> <<>>]
            ELSE PropertiesStep((CHOOSE e \in Keyword(schema, "properties") : TRUE).props,
                                cfg, cleaned, <<>>)
        all == typeErrs \o reqErrs \o propsR.errs
        errs == IF cfg.allErrors \/ all = <<>> THEN all ELSE <<all[1]>>
    IN  [valid |-> errs = <<>>, errors |-> errs, data |-> propsR.data]

----------------------------------------------------------------------------
(* SchemaValidator.getInstance, validate and validateJson *)

EmptyMap == [k \in {} |-> 0]

\* `${e.instancePath || '/'} ${e.message}`
ErrorString(e) ==
    (IF e.instancePath = "" THEN "/" ELSE e.instancePath) \o " " \o e.message

\* `return { valid: true, data: payload as T }` when the validator accepts,
\* `return { valid: false, errors }` when it does not
ValidationResultKeepsData(verdict) ==
    [valid |-> verdict.valid, data |-> {verdict.data},
     errors |-> IF verdict.valid THEN {}
                ELSE {[i \in 1..Len(verdict.errors) |-> ErrorString(verdict.errors[i])]}]
ValidationResult(verdict) ==
    IF verdict.valid
    THEN [valid |-> TRUE, data |-> {verdict.data}, errors |-> {}]
    ELSE [valid |-> FALSE, data |-> {},
          errors |-> {[i \in 1..Len(verdict.errors) |-> ErrorString(verdict.errors[i])]}]

\* getInstance(options): the instance it returns and the cache that
\* instance holds
InstanceAfter(options) ==
    IF NeedsConstruction(instance, options)
    THEN {[id |-> constructed + 1, cfg |-> AjvOptions(options)]}
    ELSE instance

CacheAfter(options) ==
    IF NeedsConstruction(instance, options) THEN EmptyMap ELSE validators

GetInstanceStep(options) ==
    /\ instance' = InstanceAfter(options)
    /\ constructed' = IF NeedsConstruction(instance, options)
                      THEN constructed + 1 ELSE constructed
    /\ firstOptions' = IF firstOptions = {} THEN {options} ELSE firstOptions
    /\ lastOptions' = {options}

\* A direct call SchemaValidator.getInstance(options).
GetInstance(options) ==
    /\ GetInstanceStep(options)
    /\ validators' = CacheAfter(options)
    /\ UNCHANGED <<compileLog, results, nextFn>>
    /\ UNCHANGED rvars

\* `let validate = this.validators.get(schemaKey); if (!validate) ...`
CacheMissAlways(cache, key) == TRUE
CacheMiss(cache, key) == key \notin DOMAIN cache

\* `this.validators.set(schemaKey, validate)`
CachePut(cache, key, fn) == (key :> fn) @@ cache

CallRecord(name, key, payload, hit, threw, fn, res) ==
    [schema |-> name, key |-> key, payload |-> payload, hit |-> hit, threw |-> threw,
     fn |-> fn, result |-> res]

\* validateJson(schema, payload, options)
ValidateJson(name, payload, options) ==
    /\ Len(results) < MaxCalls
    /\ GetInstanceStep(options)
    /\ LET cfg == (CHOOSE i \in InstanceAfter(options) : TRUE).cfg
           cache == CacheAfter(options)
           key == SchemaKey(name)
       IN  IF ~CacheMiss(cache, key)
           THEN /\ validators' = cache
                /\ UNCHANGED <<compileLog, nextFn>>
                /\ results' = Append(results,
                       CallRecord(name, key, payload, TRUE, FALSE, cache[key].fn,
                           {ValidationResult(
                               RunValidator(SchemaDef(cache[key].schema), cfg, payload))}))
           ELSE IF CompileOutcome(SchemaDef(name), cfg) = "throws"
           THEN /\ validators' = cache
                /\ compileLog' = Append(compileLog, [key |-> key, ok |-> FALSE, fn |-> 0])
                /\ UNCHANGED nextFn
                /\ results' = Append(results,
                       CallRecord(name, key, payload, FALSE, TRUE, 0, {}))
           ELSE /\ validators' = CachePut(cache, key, [fn |-> nextFn, schema |-> name])
                /\ compileLog' = Append(compileLog,
                                        [key |-> key, ok |-> TRUE, fn |-> nextFn])
                /\ nextFn' = nextFn + 1
                /\ results' = Append(results,
                       CallRecord(name, key, payload, FALSE, FALSE, nextFn,
                           {ValidationResult(RunValidator(SchemaDef(name), cfg, payload))}))
    /\ UNCHANGED rvars

ValidatorInit ==
    /\ instance = {}
    /\ validators = EmptyMap
    /\ compileLog = <<>>
    /\ results = <<>>
    /\ nextFn = 1
    /\ constructed = 0
    /\ firstOptions = {}
    /\ lastOptions = {}

----------------------------------------------------------------------------
(* Specifications *)

Init == RetryInit /\ ValidatorInit

\* One withRateLimit invocation, from its call to its settlement.
RetryNext ==
    \/ \E cfg \in Configs : Invoke("a", cfg)
    \/ \E v \in ResolvedValues : RequestResolves("a", v)
    \/ \E shape \in ErrorShapes : RequestRejects("a", shape)
    \/ TimerFires("a")

Spec == Init /\ [][RetryNext]_vars

\* The same invocation when every execution of the wrapped operation
\* settles and the event loop runs every timer that was set.
OperationSettles(p) ==
    \/ \E v \in ResolvedValues : RequestResolves(p, v)
    \/ \E shape \in ErrorShapes : RequestRejects(p, shape)

FairSpec == Spec /\ WF_vars(OperationSettles("a")) /\ WF_vars(TimerFires("a"))

\* Calls on the process-wide SchemaValidator, one after the other.
ValidatorNext ==
    \/ \E o \in OptionChoices : GetInstance(o)
    \/ \E n \in SchemaNames, payload \in Payloads, o \in OptionChoices :
          ValidateJson(n, payload, o)

ValidatorSpec == Init /\ [][ValidatorNext]_vars

\* Two withRateLimit invocations in flight at once: between two awaits an
\* invocation runs alone, and the steps of the two interleave in any order.
ConcConfigs ==
    [maxRetries : {{n} : n \in 1..(MaxRetriesBound - 1)},
     baseDelay  : {{}},
     maxDelay   : {{}, {1500}}]

ConcShapes ==
    { Shape(TRUE, TRUE, TRUE, 429, TRUE, <<"2">>),
      Shape(TRUE, TRUE, TRUE, 429, FALSE, <<>>),
      Shape(TRUE, TRUE, TRUE, 500, FALSE, <<>>) }

ConcNext ==
    \E p \in Invocations :
        \/ \E cfg \in ConcConfigs : Invoke(p, cfg)
        \/ RequestResolves(p, "response200")
        \/ \E shape \in ConcShapes : RequestRejects(p, shape)
        \/ TimerFires(p)

ConcSpec == Init /\ [][ConcNext]_vars

----------------------------------------------------------------------------
(* Retry policy: properties *)

Settled(p) == pc[p] \in {"returned", "threw"}

\* an Error that carries a response whose status is 429
Carries429(e) == e.isError /\ e.hasResponse /\ e.respDefined /\ e.status = 429

RejectedWith429(x) == x.kind = "rejected" /\ \A e \in x.error : Carries429(e)
RejectedWithOther(x) == x.kind = "rejected" /\ \A e \in x.error : ~Carries429(e)

RECURSIVE SumDelays(_)
SumDelays(ws) == IF ws = <<>> THEN Num(0) ELSE NumAdd(ws[1].delay, SumDelays(Tail(ws)))

Min(a, b) == IF a <= b THEN a ELSE b

\* C1: with maxRetries >= 1, when every execution of the operation fails
\* with a 429-carrying error, the settled invocation has executed the
\* operation exactly maxRetries times and has thrown the very error of the
\* last execution; it has not returned.
C1_ExhaustionPropagatesLast429 ==
    \A p \in Invocations :
        ( /\ Settled(p)
          /\ MaxRetriesOf(config[p]) >= 1
          /\ \A i \in 1..Len(execs[p]) : RejectedWith429(execs[p][i]) )
        => /\ calls[p] = MaxRetriesOf(config[p])
           /\ Len(execs[p]) = MaxRetriesOf(config[p])
           /\ outcome[p].kind = "threw"
           /\ outcome[p].error = execs[p][Len(execs[p])].error

C1_Witness ==
    \E p \in Invocations :
        /\ Settled(p)
        /\ MaxRetriesOf(config[p]) = 3
        /\ Len(execs[p]) = 3
        /\ \A i \in 1..3 : RejectedWith429(execs[p][i])
        /\ outcome[p].kind = "threw"
        /\ \E e \in outcome[p].error : e.seq = 3

\* C2: an execution that fails with an error not carrying a 429 response
\* is the last one: the invocation throws that same error at once, with
\* no wait after it (one wait per earlier 429 only) and no further
\* execution; on the first attempt that is one execution and zero waits.
C2_NonRetryablePropagatesAtOnce ==
    \A p \in Invocations :
        \A i \in 1..Len(execs[p]) :
            RejectedWithOther(execs[p][i])
            => /\ i = Len(execs[p])
               /\ calls[p] = i
               /\ pc[p] = "threw"
               /\ outcome[p] = [kind |-> "threw", value |-> "", error |-> execs[p][i].error]
               /\ Len(waits[p]) = i - 1
               /\ (i = 1 => elapsed[p] = Num(0))

C2_Witness ==
    \E p \in Invocations :
        /\ Len(execs[p]) = 2
        /\ RejectedWith429(execs[p][1])
        /\ RejectedWithOther(execs[p][2])
        /\ \E e \in execs[p][2].error : e.status = 503 /\ e.hasRetryAfter
        /\ pc[p] = "threw"

\* C3: k executions failing with a 429-carrying error followed by one that
\* succeeds with v make the invocation return v after exactly k + 1
\* executions and k waits, suspended for the sum of the k delays computed;
\* k = 0 means one execution and no wait, and with maxRetries 3, baseDelay
\* 1000, maxDelay 10000 and retry-after '1' on attempts 1 and 2 there are
\* two waits of 1000 ms each.
C3_SuccessAfterKRetries ==
    \A p \in Invocations :
        LET n == Len(execs[p])
        IN  ( /\ n >= 1
              /\ execs[p][n].kind = "resolved"
              /\ \A i \in 1..(n - 1) : RejectedWith429(execs[p][i]) )
            => /\ n - 1 < MaxRetriesOf(config[p])
               /\ pc[p] = "returned"
               /\ outcome[p] = [kind |-> "returned", value |-> execs[p][n].value,
                                error |-> {}]
               /\ calls[p] = n
               /\ Len(waits[p]) = n - 1
               /\ \A i \in 1..(n - 1) : {waits[p][i].error} = execs[p][i].error
               /\ elapsed[p] = SumDelays(waits[p])
               /\ (n = 1 => elapsed[p] = Num(0))
               /\ ( ( /\ n = 3
                      /\ config[p] = [maxRetries |-> {3}, baseDelay |-> {1000},
                                      maxDelay |-> {10000}]
                      /\ \A i \in 1..2 : \A e \in execs[p][i].error :
                            e.hasRetryAfter /\ e.retryAfter = <<"1">> )
                    => /\ waits[p][1].delay = Num(1000)
                       /\ waits[p][2].delay = Num(1000)
                       /\ elapsed[p] = Num(2000) )

C3_Witness ==
    \E p \in Invocations :
        /\ pc[p] = "returned"
        /\ Len(execs[p]) = 3
        /\ config[p] = [maxRetries |-> {3}, baseDelay |-> {1000}, maxDelay |-> {10000}]
        /\ \A i \in 1..2 : \A e \in execs[p][i].error :
              Carries429(e) /\ e.hasRetryAfter /\ e.retryAfter = <<"1">>
        /\ outcome[p].value = "response200"
        /\ elapsed[p] = Num(2000)

\* The retry-after texts that are a count of seconds, with that count.
HintSeconds(str) ==
    CASE str = <<"0">> -> {0}
      [] str = <<"1">> -> {1}
      [] str = <<"2">> -> {2}
      [] str = <<"1", "2">> -> {12}
      [] str = <<"-", "1">> -> {0 - 1}
      [] OTHER -> {}

\* C4: the wait after the 429 failure of attempt i (zero-based) lasts
\* min(h * 1000, maxDelay) when the response carries a retry-after hint of
\* h seconds, whatever i, and min(baseDelay * 2^i, maxDelay) when it
\* carries no hint; the first wait without a hint is min(baseDelay, maxDelay).
C4_DelayFormula ==
    \A p \in Invocations :
        \A j \in 1..Len(waits[p]) :
            LET w == waits[p][j]
                maxDelay == MaxDelayOf(config[p])
                baseDelay == BaseDelayOf(config[p])
            IN  /\ w.attempt = j - 1
                /\ \A h \in HintSeconds(w.error.retryAfter) :
                      w.error.hasRetryAfter => w.delay = Num(Min(h * 1000, maxDelay))
                /\ (~w.error.hasRetryAfter \/ w.error.retryAfter = <<>>)
                      => /\ w.delay = Num(Min(baseDelay * (2 ^ w.attempt), maxDelay))
                         /\ (j = 1 => w.delay = Num(Min(baseDelay, maxDelay)))

C4_Witness ==
    \E p \in Invocations :
        /\ Len(waits[p]) = 3
        /\ ~waits[p][1].error.hasRetryAfter
        /\ waits[p][1].delay = Num(1000)
        /\ waits[p][2].error.hasRetryAfter /\ waits[p][2].error.retryAfter = <<"1", "2">>
        /\ waits[p][2].delay = Num(10000)
        /\ ~waits[p][3].error.hasRetryAfter
        /\ waits[p][3].delay = Num(4000)

\* the transitions of the retry state machine
AllowedTransition(from, to) ==
    \/ from = "Attempting"
         /\ to \in {"Success", "RateLimited", "OtherFailure", "ExhaustedRetries"}
    \/ from = "RateLimited" /\ to = "Waiting"
    \/ from = "Waiting" /\ to = "Attempting"

\* C5: an invocation follows only the transitions Attempting -> Success,
\* Attempting -> RateLimited -> Waiting -> Attempting, Attempting ->
\* OtherFailure and Attempting -> ExhaustedRetries: each Waiting is followed
\* by a new attempt and ExhaustedRetries is entered from the failed final
\* attempt, not from a backoff wait.
C5_StateMachineTransitions ==
    \A p \in Invocations :
        \A i \in 1..(Len(trace[p]) - 1) : AllowedTransition(trace[p][i], trace[p][i + 1])

----------------------------------------------------------------------------
(* Validator cache: properties *)

CallKey(i) == results[i].key

\* the calls made with schema key k, in order
CallsWithKey(k) == {i \in 1..Len(results) : CallKey(i) = k}
CompilesOfKey(k) == {i \in 1..Len(compileLog) : compileLog[i].key = k}

First(S) == CHOOSE i \in S : \A j \in S : i <= j

\* the Ajv options of the one instance
InstanceCfg == (CHOOSE i \in instance : TRUE).cfg

\* C6: the cache maps each schema key to the validator compiled by the
\* first call that used the key: for a key in the cache the compiler ran
\* once, in that first call, every later call with the key reused that
\* validator, and the entry has not been replaced or removed since.
C6_CacheKeepsFirstValidator ==
    /\ \A k \in DOMAIN validators :
          /\ Cardinality(CompilesOfKey(k)) = 1
          /\ \A c \in CompilesOfKey(k) : compileLog[c].ok /\ compileLog[c].fn = validators[k].fn
          /\ CallsWithKey(k) # {}
          /\ LET first == First(CallsWithKey(k))
             IN  /\ ~results[first].hit
                 /\ results[first].fn = validators[k].fn
                 /\ validators[k].schema = results[first].schema
                 /\ \A i \in CallsWithKey(k) \ {first} :
                       results[i].hit /\ results[i].fn = validators[k].fn
    /\ \A i \in 1..Len(results) : ~results[i].threw => CallKey(i) \in DOMAIN validators
    /\ \A k1, k2 \in DOMAIN validators : validators[k1].fn = validators[k2].fn => k1 = k2

C6_Witness ==
    /\ Len(results) = 3
    /\ results[1].schema = "user" /\ ~results[1].hit
    /\ results[2].schema = "userReordered" /\ ~results[2].hit
    /\ results[3].schema = "userUndef" /\ results[3].hit
    /\ results[3].fn = results[1].fn
    /\ Cardinality(DOMAIN validators) = 2

\* C7: two calls validate(S, P) return identical results (or fail alike),
\* whether the first was a cache miss or a hit and whatever calls were
\* made in between.
C7_ValidateIdempotent ==
    \A i, j \in 1..Len(results) :
        (results[i].schema = results[j].schema /\ results[i].payload = results[j].payload)
        => /\ results[i].threw = results[j].threw
           /\ results[i].result = results[j].result

C7_Witness ==
    /\ Len(results) = 3
    /\ results[1].schema = "user" /\ results[3].schema = "user"
    /\ results[1].payload = results[3].payload
    /\ results[2].schema = "idOnly"
    /\ ~results[1].hit /\ results[3].hit
    /\ \E r \in results[3].result : ~r.valid
    /\ results[1].result = results[3].result

\* a schema the Ajv instance cannot compile
Malformed(name) == CompileThrows(SchemaDef(name), InstanceCfg)

\* C8: validate of a malformed schema raises the compile error instead of
\* returning a result, inserts no cache entry for the key and compiles
\* once per call; a later call with the same schema fails the same way.
C8_MalformedSchemaRaises ==
    /\ \A i \in 1..Len(results) :
          Malformed(results[i].schema)
          => /\ results[i].threw
             /\ results[i].result = {}
             /\ ~results[i].hit
             /\ CallKey(i) \notin DOMAIN validators
             /\ Cardinality(CompilesOfKey(CallKey(i))) = Cardinality(CallsWithKey(CallKey(i)))
             /\ \A c \in CompilesOfKey(CallKey(i)) : ~compileLog[c].ok
    /\ Cardinality(DOMAIN validators)
          = Cardinality({c \in 1..Len(compileLog) : compileLog[c].ok})

C8_Witness ==
    /\ Len(results) = 3
    /\ results[1].schema = "unknownKeyword" /\ results[1].threw
    /\ results[2].schema = "user" /\ ~results[2].threw
    /\ results[3].schema = "unknownKeyword" /\ results[3].threw
    /\ Len(compileLog) = 3
    /\ DOMAIN validators = {SchemaKey("user")}

\* the payload violates the schema under the options of the instance
Violates(name, payload) == ~RunValidator(SchemaDef(name), InstanceCfg, payload).valid

\* C9: a returned ValidationResult is Valid with data and no errors, or
\* Invalid with errors and no data; a payload that violates a well-formed
\* schema is returned as Invalid, not raised.
C9_ResultIsOneVariant ==
    \A i \in 1..Len(results) :
        /\ ~results[i].threw
           => /\ Cardinality(results[i].result) = 1
              /\ \A r \in results[i].result :
                    \/ r.valid /\ r.data # {} /\ r.errors = {}
                    \/ ~r.valid /\ r.data = {} /\ r.errors # {}
        /\ (~Malformed(results[i].schema) /\ Violates(results[i].schema, results[i].payload))
           => /\ ~results[i].threw
              /\ \A r \in results[i].result :
                    ~r.valid /\ r.data = {} /\ \A errs \in r.errors : Len(errs) >= 1

C9_Witness ==
    /\ Len(results) = 2
    /\ \E r \in results[1].result : r.valid /\ r.data # {} /\ r.errors = {}
    /\ \E r \in results[2].result : ~r.valid /\ \E errs \in r.errors : Len(errs) = 2

\* C10: the configuration is fixed by the first getInstance / validateJson
\* call: every later call, whatever options it passes, gets that one
\* instance with the first call's configuration and its cache.
C10_FirstConfigurationWins ==
    /\ constructed <= 1
    /\ (instance = {}) = (firstOptions = {})
    /\ \A o \in firstOptions : instance = {[id |-> 1, cfg |-> AjvOptions(o)]}
    /\ \A i \in 1..Len(results) : ~results[i].threw => CallKey(i) \in DOMAIN validators

C10_Witness ==
    /\ firstOptions = {NoOptions}
    /\ lastOptions = {Opts({TRUE}, {FALSE}, {"all"})}
    /\ Len(results) = 2
    /\ \A i \in instance : ~i.cfg.strict /\ i.cfg.coerceTypes /\ i.cfg.removeAdditional = "false"
    /\ \E r \in results[2].result : r.valid

\* The violations of a payload against the validator compiled from the
\* schema named `name`, written out as the error strings expected for
\* them: required properties first, then the properties in schema order.
ExpectedErrors(name, coerce, payload) ==
    IF name \in {"user", "userReordered", "userUndef"}
    THEN (IF payload.id = {} THEN <<"/ must have required property 'id'">> ELSE <<>>)
         \o (IF payload.email = {} THEN <<"/ must have required property 'email'">>
             ELSE <<>>)
         \o (IF payload.id = {JString("2")} /\ ~coerce THEN <<"/id must be integer">>
             ELSE <<>>)
         \o (IF payload.email = {JString("bad")}
             THEN <<"/email must match format \"email\"">> ELSE <<>>)
    ELSE IF name = "idOnly"
    THEN (IF payload.id = {JString("2")} /\ ~coerce THEN <<"/id must be integer">>
          ELSE <<>>)
    ELSE <<>>

\* C11: a payload that violates n >= 1 constraints is returned as Invalid
\* with exactly n error strings, one per violation in the validator's
\* order, each the instance path ('/' for the root) followed by one space
\* and the message; collect-all mode is on whatever the options are.
C11_AllViolationsReported ==
    /\ \A i \in instance : i.cfg.allErrors
    /\ \A i \in 1..Len(results) :
          ~results[i].threw
          => LET expected == ExpectedErrors(validators[results[i].key].schema,
                                            InstanceCfg.coerceTypes, results[i].payload)
             IN  \A r \in results[i].result :
                    /\ r.valid = (expected = <<>>)
                    /\ ~r.valid => r.errors = {expected}

C11_Witness ==
    /\ Len(results) = 2
    /\ lastOptions = {Opts({TRUE}, {FALSE}, {"all"})}
    /\ \E r \in results[1].result :
          r.errors = {<<"/ must have required property 'id'",
                        "/email must match format \"email\"">>}
    /\ \E r \in results[2].result : r.errors = {<<"/id must be integer">>}

\* The failure carries a response object that has no retry-after header.
LacksHeader(e) == e.hasResponse /\ e.respDefined /\ ~e.hasRetryAfter

\* The failure carries no response object at all.
NoResponse(e) == ~(e.hasResponse /\ e.respDefined)

\* Execution i of p failed with e and e went straight to the caller: no
\* wait was made for it and no execution follows it.
PropagatedAtOnce(p, i, e) ==
    /\ i = Len(execs[p])
    /\ calls[p] = i
    /\ pc[p] = "threw"
    /\ outcome[p] = Threw(e)
    /\ \A j \in 1..Len(waits[p]) : waits[p][j].error # e

\* The failed executions of p: index and error.
FailuresOf(p) ==
    {[i |-> i, e |-> CHOOSE e \in execs[p][i].error : TRUE] :
        i \in {k \in 1..Len(execs[p]) : execs[p][k].kind = "rejected"}}

ExpectedWaits(cfg, xs) ==
    LET limited == {j \in 1..Len(xs) : \E e \in xs[j].error : IsRateLimited(e)}
    IN  [j \in 1..Cardinality(limited) |->
            LET e == CHOOSE e \in xs[j].error : TRUE
            IN  [attempt |-> j - 1, delay |-> ComputeDelay(e, j - 1, cfg), error |-> e]]

\* The outcome an invocation p with config cfg reports for the executions
\* xs of its operation, once it has settled.
ExpectedOutcome(p, cfg, xs) ==
    IF xs # <<>> /\ xs[Len(xs)].kind = "resolved"
    THEN Returned(xs[Len(xs)].value)
    ELSE Threw(FinalError(p, IF xs = <<>> THEN {} ELSE xs[Len(xs)].error))

\* The run of p is complete for the executions xs: the last one resolved
\* or failed without a 429, or the attempts are used up.
RunComplete(cfg, xs) ==
    \/ Len(xs) >= MaxRetriesOf(cfg)
    \/ /\ xs # <<>>
       /\ \/ xs[Len(xs)].kind = "resolved"
          \/ \E e \in xs[Len(xs)].error : ~IsRateLimited(e)

\* C13: under any interleaving of two invocations, the number of attempts,
\* the waits and the outcome of each are those its own config and the
\* outcomes of its own operation determine; nothing of the other
\* invocation shows in them, and no wait is cut short.
C13_InvocationsIndependent ==
    \A p \in Invocations :
        LET cfg == config[p]
            xs == execs[p]
            ws == ExpectedWaits(cfg, xs)
            fired == IF pc[p] = "waiting" THEN Len(ws) - 1 ELSE Len(ws)
        IN  /\ \A j \in 1..Len(xs) : \A e \in xs[j].error : e.inv = p /\ e.seq = j
            /\ waits[p] = ws
            /\ elapsed[p] = SumDelays(SubSeq(ws, 1, fired))
            /\ calls[p] = IF pc[p] = "attempting" THEN Len(xs) + 1 ELSE Len(xs)
            /\ calls[p] <= MaxRetriesOf(cfg)
            /\ Settled(p) <=> (pc[p] # "idle" /\ pc[p] # "waiting" /\ RunComplete(cfg, xs))
            /\ outcome[p] = IF Settled(p) THEN ExpectedOutcome(p, cfg, xs) ELSE NoOutcome
            /\ lastError[p] = LET rej == {j \in 1..Len(xs) : xs[j].kind = "rejected"}
                              IN  IF rej = {} THEN {}
                                  ELSE xs[CHOOSE j \in rej : \A k \in rej : k <= j].error

\* Both invocations have finished after their steps interleaved: "a" used
\* up two attempts on 429 failures while "b" failed once and then succeeded.
C13_Witness ==
    /\ pc["a"] = "threw" /\ calls["a"] = 2 /\ Len(waits["a"]) = 2
    /\ pc["b"] = "returned" /\ calls["b"] = 2 /\ Len(waits["b"]) = 1
    /\ config["a"] # config["b"]
    /\ waits["a"][1].delay # waits["b"][1].delay

\* What a caller gets from validate(schema, payload) on the instance when no
\* other caller has used the key: its own schema is compiled and run.
AloneThrows(name) == CompileOutcome(SchemaDef(name), InstanceCfg) = "throws"
AloneResult(name, payload) ==
    ValidationResult(RunValidator(SchemaDef(name), InstanceCfg, payload))

\* C14: callers that validate against the same schema key, in whatever
\* order their calls run, each obtain the result they would obtain alone,
\* and afterwards the cache holds exactly one entry for the key.
C14_FirstUseRaceBenign ==
    \A i \in 1..Len(results) :
        /\ results[i].threw = AloneThrows(results[i].schema)
        /\ ~results[i].threw
              => /\ results[i].result = {AloneResult(results[i].schema, results[i].payload)}
                 /\ CallKey(i) \in DOMAIN validators
                 /\ Cardinality({c \in CompilesOfKey(CallKey(i)) : compileLog[c].ok}) = 1
                 /\ \A j \in 1..Len(results) :
                       (CallKey(j) = CallKey(i) /\ ~results[j].threw)
                       => results[j].fn = validators[CallKey(i)].fn

\* Three callers use one key for the first time with two schema objects
\* and different payloads: one compiles, the others find the entry.
C14_Witness ==
    /\ Len(results) = 3
    /\ results[1].schema = "userUndef" /\ ~results[1].hit
    /\ results[2].schema = "user" /\ results[2].hit
    /\ results[3].schema = "userUndef" /\ results[3].hit
    /\ results[1].payload # results[2].payload
    /\ \E r \in results[1].result : r.valid
    /\ \E r \in results[2].result : ~r.valid
    /\ Cardinality(DOMAIN validators) = 1

\* rateLimit(api, path, options) is withRateLimit(() => api.get(path,
\* options)) with no config: the invocations whose config is NoConfig and
\* whose operation is the GET of the request context, which resolves with
\* the response whatever its status.
AnsweredWith429(x) == x = Resolved("response429")

\* C15: when the request context answers the GET with a 429 response, the
\* helper waits the computed backoff and issues the GET again, up to
\* maxRetries attempts, so that the caller receives the first non-429
\* response.
C15_RateLimitRetriesOn429Response ==
    \A p \in Invocations :
        config[p] = NoConfig
        => \A i \in 1..Len(execs[p]) :
              AnsweredWith429(execs[p][i])
              => /\ Len(waits[p]) >= i
                 /\ outcome[p] = Returned("response429") => i = MaxRetriesOf(config[p])

\* C16: when every execution of the wrapped operation terminates, an
\* invocation eventually returns or fails, and no execution of the
\* operation is a (maxRetries + 1)-th or later one.
C16_TerminatesWithinMaxRetries ==
    /\ [](\A p \in Invocations :
            /\ calls[p] > 0 => calls[p] <= MaxRetriesOf(config[p])
            /\ Len(execs[p]) <= calls[p])
    /\ \A p \in Invocations : (pc[p] # "idle") ~> Settled(p)

\* An invocation that was rate-limited on each of its two attempts has
\* waited twice and has terminated.
C16_Witness ==
    /\ config["a"].maxRetries = {2}
    /\ calls["a"] = 2 /\ Len(execs["a"]) = 2 /\ Len(waits["a"]) = 2
    /\ trace["a"][Len(trace["a"])] = "ExhaustedRetries"
    /\ Settled("a")

\* C17: an invocation that has completed has executed the wrapped operation
\* at least once, whatever the config, and a failure it reports is one the
\* operation produced.
C17_ExecutesAtLeastOnce ==
    \A p \in Invocations :
        Settled(p)
        => /\ calls[p] >= 1
           /\ Len(execs[p]) >= 1
           /\ \A e \in outcome[p].error :
                 \E i \in 1..Len(execs[p]) : execs[p][i].error = {e}

\* C18: every backoff wait has a well-defined duration d with
\* 0 <= d <= maxDelay, for every value of the retry-after header and every
\* attempt index.
C18_DelayWithinBounds ==
    \A p \in Invocations : \A j \in 1..Len(waits[p]) :
        LET d == waits[p][j].delay
        IN  /\ ~d.nan
            /\ 0 <= d.v
            /\ d.v <= MaxDelayOf(config[p])

====
